---- MODULE Spec2Model ----
(***************************************************************************)
(* Account statements page (src/pages/Statements.tsx) and customer history *)
(* modal (src/components/Customers/CustomerDetailsModal.tsx).              *)
(*                                                                         *)
(* Conventions of the model                                                *)
(*   - a JavaScript string is a sequence of one-character strings, so that *)
(*     quoting, joining and parsing act on characters;                     *)
(*   - an ISO date string 'yyyy-MM-dd' is the tuple <<y, m, d>>, and the   *)
(*     empty string delivered by a cleared date input is <<>>;             *)
(*   - a Date object is the number of its local calendar day counted from  *)
(*     1970-01-01 (time of day plays no part in the page);                 *)
(*   - a monetary amount is a whole number of hundredths (paise);          *)
(*   - output is what the last handler produced (a file, the modal, a      *)
(*     thrown error, or nothing), and event is a history variable: the     *)
(*     handler that ran last, its argument, and the period label before.   *)
(***************************************************************************)
EXTENDS Integers, Sequences, FiniteSets, TLC

VARIABLES filters, orders, payments, customers, transactions, today, zoneWest, output, event

vars == <<filters, orders, payments, customers, transactions, today, zoneWest, output, event>>

----------------------------------------------------------------------------
(* Text *)

DigitChars == <<"0", "1", "2", "3", "4", "5", "6", "7", "8", "9">>

DigitChar(d) == DigitChars[d + 1]

RECURSIVE Digits(_)
Digits(n) == IF n < 10 THEN <<DigitChar(n)>> ELSE Digits(n \div 10) \o <<DigitChar(n % 10)>>

RECURSIVE PadStart(_, _)
PadStart(s, width) == IF Len(s) >= width THEN s ELSE PadStart(<<"0">> \o s, width)

\* Number.prototype.toFixed(2) of an amount held in hundredths
ToFixed2(n) ==
  LET a == IF n < 0 THEN -n ELSE n
  IN  (IF n < 0 THEN <<"-">> ELSE <<>>)
        \o Digits(a \div 100) \o <<".">> \o PadStart(Digits(a % 100), 2)

RECURSIVE Join(_, _)
Join(parts, sep) ==
  IF parts = <<>> THEN <<>>
  ELSE IF Len(parts) = 1 THEN parts[1]
  ELSE parts[1] \o sep \o Join(Tail(parts), sep)

Map(f(_), s) == [i \in 1..Len(s) |-> f(s[i])]

----------------------------------------------------------------------------
(* Calendar: date-fns over the JavaScript Date *)

IsLeapYear(y) == (y % 4 = 0 /\ y % 100 # 0) \/ y % 400 = 0

DaysInMonth(y, m) ==
  IF m = 2 THEN (IF IsLeapYear(y) THEN 29 ELSE 28)
  ELSE IF m \in {4, 6, 9, 11} THEN 30 ELSE 31

\* day count of a civil date from 1970-01-01
DayNumber(date) ==
  LET y   == IF date[2] <= 2 THEN date[1] - 1 ELSE date[1]
      era == y \div 400
      yoe == y - era * 400
      mp  == IF date[2] > 2 THEN date[2] - 3 ELSE date[2] + 9
      doy == (153 * mp + 2) \div 5 + date[3] - 1
      doe == yoe * 365 + yoe \div 4 - yoe \div 100 + doy
  IN  era * 146097 + doe - 719468

\* civil date of a day count
DateOfDay(n) ==
  LET z   == n + 719468
      era == z \div 146097
      doe == z - era * 146097
      yoe == (doe - doe \div 1460 + doe \div 36524 - doe \div 146096) \div 365
      doy == doe - (365 * yoe + yoe \div 4 - yoe \div 100)
      mp  == (5 * doy + 2) \div 153
      d   == doy - (153 * mp + 2) \div 5 + 1
      m   == IF mp < 10 THEN mp + 3 ELSE mp - 9
      y   == yoe + era * 400 + (IF m <= 2 THEN 1 ELSE 0)
  IN  <<y, m, d>>

\* Date.prototype.getDay: 0 is Sunday (1970-01-01 was a Thursday)
GetDay(n) == (n + 4) % 7

IsValidDate(s) ==
  /\ Len(s) = 3
  /\ s[2] \in 1..12
  /\ s[3] \in 1..DaysInMonth(s[1], s[2])

\* the time value of an Invalid Date (NaN): a day before every calendar date
InvalidDate == DayNumber(<<0, 3, 1>>) - 1

\* parseISO of a date-only string: local midnight of that day
ParseISO(s) == IF IsValidDate(s) THEN DayNumber(s) ELSE InvalidDate

\* Date.prototype.getTime, in whole days (the millisecond count divided by 86400000)
GetTime(date) == date

\* new Date(s) of a date-only string is UTC midnight of that day; read in local
\* time it is the day before in a zone west of Greenwich
NewDate(s, west) == IF IsValidDate(s) THEN DayNumber(s) - (IF west THEN 1 ELSE 0) ELSE InvalidDate

startOfMonth(date) == LET c == DateOfDay(date) IN DayNumber(<<c[1], c[2], 1>>)

endOfMonth(date) == LET c == DateOfDay(date) IN DayNumber(<<c[1], c[2], DaysInMonth(c[1], c[2])>>)

\* weekStartsOn defaults to 0, Sunday
startOfWeek(date) == date - GetDay(date)

endOfWeek(date) == date + (6 - GetDay(date))

\* format(date, 'yyyy-MM-dd') as an ISO date string
FormatISO(date) == DateOfDay(date)

\* the characters of an ISO date string
IsoChars(s) ==
  IF s = <<>> THEN <<>>
  ELSE PadStart(Digits(s[1]), 4) \o <<"-">> \o PadStart(Digits(s[2]), 2)
         \o <<"-">> \o PadStart(Digits(s[3]), 2)

MonthAbbr ==
  << <<"J","a","n">>, <<"F","e","b">>, <<"M","a","r">>, <<"A","p","r">>,
     <<"M","a","y">>, <<"J","u","n">>, <<"J","u","l">>, <<"A","u","g">>,
     <<"S","e","p">>, <<"O","c","t">>, <<"N","o","v">>, <<"D","e","c">> >>

\* format(date, 'MMM dd, yyyy')
FormatMMMddyyyy(date) ==
  LET c == DateOfDay(date)
  IN  MonthAbbr[c[2]] \o <<" ">> \o PadStart(Digits(c[3]), 2) \o <<",", " ">>
        \o PadStart(Digits(c[1]), 4)

\* format(date, 'dd/MM/yyyy')
FormatddMMyyyy(date) ==
  LET c == DateOfDay(date)
  IN  PadStart(Digits(c[3]), 2) \o <<"/">> \o PadStart(Digits(c[2]), 2) \o <<"/">>
        \o PadStart(Digits(c[1]), 4)

----------------------------------------------------------------------------
(* Data store (DataContext): the query accessors the page calls *)

Undefined == "undefined"

\* comparison of two date strings as strings: '' sorts before every date
StringLeq(a, b) ==
  IF a = <<>> THEN TRUE
  ELSE IF b = <<>> THEN FALSE
  ELSE \/ a[1] < b[1]
       \/ a[1] = b[1] /\ a[2] < b[2]
       \/ a[1] = b[1] /\ a[2] = b[2] /\ a[3] <= b[3]

InRange(date, params) == StringLeq(params.dateFrom, date) /\ StringLeq(date, params.dateTo)

MatchesCustomer(customerId, params) ==
  params.customer = Undefined \/ customerId = params.customer

getFilteredOrders(os, params) ==
  SelectSeq(os, LAMBDA o : MatchesCustomer(o.customerId, params) /\ InRange(o.orderDate, params))

getFilteredPayments(ps, params) ==
  SelectSeq(ps, LAMBDA p : MatchesCustomer(p.customerId, params) /\ InRange(p.paymentDate, params))

----------------------------------------------------------------------------
(* Array.prototype.sort: a stable sort by a comparator *)

RECURSIVE InsertSorted(_, _, _)
InsertSorted(cmp(_, _), sorted, x) ==
  IF sorted = <<>> THEN <<x>>
  ELSE LET last == sorted[Len(sorted)]
       IN  IF cmp(last, x) <= 0 THEN Append(sorted, x)
           ELSE Append(InsertSorted(cmp, SubSeq(sorted, 1, Len(sorted) - 1), x), last)

RECURSIVE SortPrefix(_, _, _)
SortPrefix(cmp(_, _), s, k) ==
  IF k = 0 THEN <<>> ELSE InsertSorted(cmp, SortPrefix(cmp, s, k - 1), s[k])

Sort(cmp(_, _), s) == SortPrefix(cmp, s, Len(s))

----------------------------------------------------------------------------
(* Statements: the transaction list and its totals *)

OrderPrefix == <<"O", "r", "d", "e", "r", ":", " ">>

PaymentReceived ==
  <<"P", "a", "y", "m", "e", "n", "t", " ", "r", "e", "c", "e", "i", "v", "e", "d">>

ItemText(i) == Digits(i.quantity) \o <<"x", " ">> \o i.productName

\* mutant: the order's amount lands in the paid field
OrderTransactionAsPaid(order) ==
  [ date         |-> order.orderDate,
    type         |-> "order",
    description  |-> OrderPrefix \o Join(Map(ItemText, order.items), <<",", " ">>),
    billed       |-> 0,
    paid         |-> order.totalAmount,
    customerName |-> order.customerName ]

OrderTransaction(order) ==
  [ date         |-> order.orderDate,
    type         |-> "order",
    description  |-> OrderPrefix \o Join(Map(ItemText, order.items), <<",", " ">>),
    billed       |-> order.totalAmount,
    paid         |-> 0,
    customerName |-> order.customerName ]

PaymentTransaction(payment) ==
  [ date         |-> payment.paymentDate,
    type         |-> "payment",
    description  |-> PaymentReceived,
    billed       |-> 0,
    paid         |-> payment.amount,
    customerName |-> payment.customerName ]

FilterParams(f) ==
  [ customer |-> IF f.customer = "" THEN Undefined ELSE f.customer,
    dateFrom |-> f.dateFrom,
    dateTo   |-> f.dateTo ]

CompareByDate(a, b) == GetTime(ParseISO(a.date)) - GetTime(ParseISO(b.date))

\* mutant: the concatenation is returned as it is
SortTransactionsOmitted(combined) == combined

\* mutant: a sort that is not stable, equal dates come out in reverse
SortTransactionsTiesReversed(combined) ==
  Sort(CompareByDate, [ i \in 1..Len(combined) |-> combined[Len(combined) + 1 - i] ])

SortTransactions(combined) == Sort(CompareByDate, combined)

\* mutant: the store's own orders array is sorted in place
ComputeTransactionsInPlace(f, os, ps) ==
  LET ByOrderDate(a, b) == GetTime(ParseISO(a.orderDate)) - GetTime(ParseISO(b.orderDate))
      sortedStore      == Sort(ByOrderDate, os)
      filteredOrders   == getFilteredOrders(sortedStore, FilterParams(f))
      filteredPayments == getFilteredPayments(ps, FilterParams(f))
      combined         == Map(OrderTransaction, filteredOrders)
                            \o Map(PaymentTransaction, filteredPayments)
  IN  [ transactions |-> SortTransactions(combined), orders |-> sortedStore, payments |-> ps ]

\* the useMemo body: the list it returns, and the store's two collections as the
\* computation leaves them (combined is a new array, so sorting it touches neither)
ComputeTransactions(f, os, ps) ==
  LET filteredOrders   == getFilteredOrders(os, FilterParams(f))
      filteredPayments == getFilteredPayments(ps, FilterParams(f))
      combined         == Map(OrderTransaction, filteredOrders)
                            \o Map(PaymentTransaction, filteredPayments)
  IN  [ transactions |-> SortTransactions(combined), orders |-> os, payments |-> ps ]

RECURSIVE Reduce(_, _, _)
Reduce(f(_, _), s, init) ==
  IF s = <<>> THEN init ELSE Reduce(f, Tail(s), f(init, s[1]))

AddBilled(sum, tx) == sum + tx.billed

AddPaid(sum, tx) == sum + tx.paid

TotalBilled(txs) == Reduce(AddBilled, txs, 0)

TotalPaid(txs) == Reduce(AddPaid, txs, 0)

----------------------------------------------------------------------------
(* Statements: the three presentations *)

\* the currency glyph, one character
Rupee == <<"Rs">>

Dash == <<"-">>

HDate == <<"D", "a", "t", "e">>

HCustomer == <<"C", "u", "s", "t", "o", "m", "e", "r">>

HDescription == <<"D", "e", "s", "c", "r", "i", "p", "t", "i", "o", "n">>

HBilled == <<"B", "i", "l", "l", "e", "d">>

HPaid == <<"P", "a", "i", "d">>

TotalLabel == <<"T", "o", "t", "a", "l">>

AllCustomers == <<"A", "l", "l", " ", "C", "u", "s", "t", "o", "m", "e", "r", "s">>

CustomerLabel == HCustomer \o <<":", " ">>

FilePrefix ==
  <<"a", "c", "c", "o", "u", "n", "t", "-", "s", "t", "a", "t", "e", "m", "e", "n", "t", "-">>

FileName(f, ext) ==
  FilePrefix \o IsoChars(f.dateFrom) \o <<"-", "t", "o", "-">> \o IsoChars(f.dateTo) \o ext

Money(amount) == IF amount > 0 THEN Rupee \o ToFixed2(amount) ELSE Dash

\* the header cells of the table, shared by the three presentations
HeadCells(includeCustomerName) ==
  <<HDate>> \o (IF includeCustomerName THEN <<HCustomer>> ELSE <<>>)
    \o <<HDescription, HBilled, HPaid>>

\* the table of the page: the header cells and one row of cells per transaction
TableHead(f) == HeadCells(f.customer = "")

TableRow(f, tx, west) ==
  <<FormatMMMddyyyy(NewDate(tx.date, west))>>
    \o (IF f.customer = "" THEN <<tx.customerName>> ELSE <<>>)
    \o <<tx.description, Money(tx.billed), Money(tx.paid)>>

\* what the page shows: the three summary cards and the transaction table, or
\* the "No transactions found" panel in its place
Screen(f, txs, west) ==
  [ totalAmount    |-> Rupee \o ToFixed2(TotalBilled(txs)),
    receivedAmount |-> Rupee \o ToFixed2(TotalPaid(txs)),
    pendingAmount  |-> Rupee \o ToFixed2(TotalBilled(txs) - TotalPaid(txs)),
    table          |-> IF Len(txs) = 0
                       THEN [ kind |-> "empty" ]
                       ELSE [ kind |-> "table",
                              head |-> TableHead(f),
                              body |-> [i \in 1..Len(txs) |-> TableRow(f, txs[i], west)] ] ]

\* customers.find(c => c.id === id)
FindCustomer(cs, id) ==
  IF \E i \in 1..Len(cs) : cs[i].id = id
  THEN cs[CHOOSE i \in 1..Len(cs) : cs[i].id = id /\ \A j \in 1..(i - 1) : cs[j].id # id]
  ELSE [ id |-> Undefined, name |-> <<>> ]

\* mutant: no fallback label
CustomerLineNameNoFallback(cs, id) == FindCustomer(cs, id).name

\* customer?.name || 'All Customers'
CustomerLineName(cs, id) ==
  LET customer == FindCustomer(cs, id)
  IN  IF customer.id = Undefined \/ customer.name = <<>> THEN AllCustomers ELSE customer.name

\* mutant: the PDF keeps the column whatever the filter
PdfIncludeCustomerNameAlways(f) == TRUE

PdfIncludeCustomerName(f) == f.customer = ""

PdfRow(f, tx, west) ==
  <<FormatddMMyyyy(NewDate(tx.date, west))>>
    \o (IF PdfIncludeCustomerName(f) THEN <<tx.customerName>> ELSE <<>>)
    \o <<tx.description, Money(tx.billed), Money(tx.paid)>>

\* mutant: an overpayment is shown as nothing pending
PdfPendingClamped(txs) ==
  IF TotalBilled(txs) < TotalPaid(txs) THEN 0 ELSE TotalBilled(txs) - TotalPaid(txs)

PdfPending(txs) == TotalBilled(txs) - TotalPaid(txs)

\* format throws RangeError on an Invalid Date
PdfThrows(f, txs) ==
  \/ ~IsValidDate(f.dateFrom)
  \/ ~IsValidDate(f.dateTo)
  \/ \E i \in 1..Len(txs) : ~IsValidDate(txs[i].date)

generatePDF(f, cs, txs, west) ==
  IF PdfThrows(f, txs)
  THEN [ kind |-> "error", error |-> "RangeError" ]
  ELSE [ kind   |-> "pdf",
         header |-> << <<"J","a","y"," ","G","o","g","a"," ","M","i","l","k"," ",
                         "S","u","p","p","l","i","e","r">>,
                       <<"A","c","c","o","u","n","t"," ","S","t","a","t","e","m","e","n","t">>,
                       <<"P","e","r","i","o","d",":"," ">>
                         \o FormatMMMddyyyy(ParseISO(f.dateFrom)) \o <<" ","t","o"," ">>
                         \o FormatMMMddyyyy(ParseISO(f.dateTo)) >>
                      \o (IF f.customer # ""
                          THEN <<CustomerLabel \o CustomerLineName(cs, f.customer)>>
                          ELSE <<>>),
         head   |-> <<HeadCells(PdfIncludeCustomerName(f))>>,
         body   |-> [i \in 1..Len(txs) |-> PdfRow(f, txs[i], west)],
         footer |-> [ total    |-> Rupee \o ToFixed2(TotalBilled(txs)),
                      received |-> Rupee \o ToFixed2(TotalPaid(txs)),
                      pending  |-> Rupee \o ToFixed2(PdfPending(txs)) ],
         file   |-> FileName(f, <<".", "p", "d", "f">>) ]

\* mutant: quotes inside a cell are left single
EscapeQuotesOmitted(cell) == cell

\* String(cell).replace(/"/g, '""')
RECURSIVE EscapeQuotes(_)
EscapeQuotes(cell) ==
  IF cell = <<>> THEN <<>>
  ELSE (IF cell[1] = "\"" THEN <<"\"", "\"">> ELSE <<cell[1]>>) \o EscapeQuotes(Tail(cell))

CsvCell(cell) == <<"\"">> \o EscapeQuotes(cell) \o <<"\"">>

CsvLine(row) == Join(Map(CsvCell, row), <<",">>)

CsvHeaders(f) == HeadCells(f.customer = "")

CsvDataRow(f, tx, west) ==
  <<IsoChars(FormatISO(NewDate(tx.date, west)))>>
    \o (IF f.customer = "" THEN <<tx.customerName>> ELSE <<>>)
    \o <<tx.description, ToFixed2(tx.billed), ToFixed2(tx.paid)>>

CsvTotalRow(f, txs) ==
  << <<>> >> \o (IF f.customer = "" THEN << <<>> >> ELSE <<>>)
    \o <<TotalLabel, ToFixed2(TotalBilled(txs)), ToFixed2(TotalPaid(txs))>>

CsvRows(f, txs, west) ==
  <<CsvHeaders(f)>> \o [i \in 1..Len(txs) |-> CsvDataRow(f, txs[i], west)]
    \o << <<>>, CsvTotalRow(f, txs) >>

CsvThrows(txs) == \E i \in 1..Len(txs) : ~IsValidDate(txs[i].date)

exportToCSV(f, txs, west) ==
  IF CsvThrows(txs)
  THEN [ kind |-> "error", error |-> "RangeError" ]
  ELSE [ kind    |-> "csv",
         content |-> Join(Map(CsvLine, CsvRows(f, txs, west)), <<"\n">>),
         file    |-> FileName(f, <<".", "c", "s", "v">>) ]

----------------------------------------------------------------------------
(* CustomerDetailsModal: the order history *)

\* mutant: the operands of the subtraction are swapped
CompareByOrderDateAsc(a, b) == GetTime(ParseISO(a.orderDate)) - GetTime(ParseISO(b.orderDate))

CompareByOrderDateDesc(a, b) == GetTime(ParseISO(b.orderDate)) - GetTime(ParseISO(a.orderDate))

SortOrdersDesc(os) == Sort(CompareByOrderDateDesc, os)

BelongsTo(order, customer) == order.customerId = customer.id

\* the list the modal shows, and the store's orders as the computation leaves them
\* (filter returns a new array, and it is the new array that is sorted)
CustomerOrders(os, customer) ==
  [ customerOrders |-> SortOrdersDesc(SelectSeq(os, LAMBDA o : BelongsTo(o, customer))),
    orders         |-> os ]

----------------------------------------------------------------------------
(* The store contents, dates and clock the model ranges over *)

MaxOrders == 2

MaxPayments == 2

NameA == <<"A">>

\* a name holding the characters CSV quoting is about
NameB == <<"B", "\"", ",">>

Milk == <<"m">>

Ghee == <<"g", "\"", "\n">>

CustomerA == [ id |-> "c1", name |-> NameA ]

CustomerB == [ id |-> "c2", name |-> NameB ]

DayBefore == <<2024, 12, 30>>

DayOf == <<2025, 1, 1>>

DayAfter == <<2025, 1, 20>>

OrderPool ==
  { [ id |-> "o1", customerId |-> "c1", customerName |-> NameA, orderDate |-> DayAfter,
      items |-> << [ quantity |-> 2, productName |-> Milk ] >>, totalAmount |-> 10000 ],
    [ id |-> "o2", customerId |-> "c2", customerName |-> NameB, orderDate |-> DayBefore,
      items |-> << [ quantity |-> 1, productName |-> Milk ],
                   [ quantity |-> 3, productName |-> Ghee ] >>, totalAmount |-> 2550 ],
    [ id |-> "o3", customerId |-> "c1", customerName |-> NameA, orderDate |-> DayOf,
      items |-> << [ quantity |-> 12, productName |-> Ghee ] >>, totalAmount |-> 5 ] }

PaymentPool ==
  { [ id |-> "p1", customerId |-> "c1", customerName |-> NameA, paymentDate |-> DayOf,
      amount |-> 6000 ],
    [ id |-> "p2", customerId |-> "c2", customerName |-> NameB, paymentDate |-> DayBefore,
      amount |-> 20000 ] }

\* a store whose records crowd onto one date: two orders and two payments of
\* DayAfter, of different customers, and one order of another date
TiedOrderPool ==
  { [ id |-> "t1", customerId |-> "c1", customerName |-> NameA, orderDate |-> DayAfter,
      items |-> << [ quantity |-> 2, productName |-> Milk ] >>, totalAmount |-> 10000 ],
    [ id |-> "t2", customerId |-> "c2", customerName |-> NameB, orderDate |-> DayAfter,
      items |-> << [ quantity |-> 3, productName |-> Ghee ] >>, totalAmount |-> 2550 ],
    [ id |-> "t3", customerId |-> "c1", customerName |-> NameA, orderDate |-> DayOf,
      items |-> << [ quantity |-> 12, productName |-> Ghee ] >>, totalAmount |-> 5 ] }

TiedPaymentPool ==
  { [ id |-> "q1", customerId |-> "c1", customerName |-> NameA, paymentDate |-> DayAfter,
      amount |-> 6000 ],
    [ id |-> "q2", customerId |-> "c2", customerName |-> NameB, paymentDate |-> DayAfter,
      amount |-> 20000 ] }

\* the lists of at most n distinct records of a pool, in every order
ListsOf(pool, n) ==
  UNION { { s \in [1..k -> pool] : \A i, j \in 1..k : i # j => s[i].id # s[j].id } : k \in 0..n }

\* the clock and the zone of the browser
Environments ==
  { [ today |-> DayNumber(<<2025, 1, 1>>), west |-> FALSE ],
    [ today |-> DayNumber(<<2024, 2, 29>>), west |-> TRUE ] }

\* what a date input can deliver: a date, or '' when the field is cleared
DateInputs == { <<>>, DayAfter }

QuickPeriods == { "today", "week", "month" }

----------------------------------------------------------------------------
(* State machine *)

NoOutput == [ kind |-> "none" ]

Event(name, value) == [ name |-> name, value |-> value, was |-> filters.period ]

InitialFilters(now) ==
  [ customer |-> "",
    dateFrom |-> FormatISO(startOfMonth(now)),
    dateTo   |-> FormatISO(endOfMonth(now)),
    period   |-> "month" ]

Init ==
  /\ \E env \in Environments : today = env.today /\ zoneWest = env.west
  /\ orders \in ListsOf(OrderPool, MaxOrders)
  /\ payments \in ListsOf(PaymentPool, MaxPayments)
  /\ customers = <<CustomerA, CustomerB>>
  /\ filters = InitialFilters(today)
  /\ transactions = ComputeTransactions(filters, orders, payments).transactions
  /\ output = NoOutput
  /\ event = [ name |-> "mount", value |-> "", was |-> "month" ]

\* the render that follows a state update: useMemo recomputes the list
Render(f) ==
  LET r == ComputeTransactions(f, orders, payments)
  IN  /\ transactions' = r.transactions
      /\ orders' = r.orders
      /\ payments' = r.payments

\* mutant: the week case sets dateFrom only, so dateTo stays at its default, today
PeriodFiltersWeekFromOnly(f, period, now) ==
  LET dateFrom == CASE period = "today" -> FormatISO(now)
                    [] period = "week"  -> FormatISO(startOfWeek(now))
                    [] period = "month" -> FormatISO(startOfMonth(now))
                    [] OTHER            -> f.dateFrom
      dateTo   == CASE period = "today" -> FormatISO(now)
                    [] period = "week"  -> FormatISO(now)
                    [] period = "month" -> FormatISO(endOfMonth(now))
                    [] OTHER            -> f.dateTo
  IN  [ f EXCEPT !.period = period, !.dateFrom = dateFrom, !.dateTo = dateTo ]

PeriodFilters(f, period, now) ==
  LET dateFrom == CASE period = "today" -> FormatISO(now)
                    [] period = "week"  -> FormatISO(startOfWeek(now))
                    [] period = "month" -> FormatISO(startOfMonth(now))
                    [] OTHER            -> f.dateFrom
      dateTo   == CASE period = "today" -> FormatISO(now)
                    [] period = "week"  -> FormatISO(endOfWeek(now))
                    [] period = "month" -> FormatISO(endOfMonth(now))
                    [] OTHER            -> f.dateTo
  IN  [ f EXCEPT !.period = period, !.dateFrom = dateFrom, !.dateTo = dateTo ]

handlePeriodChange(period) ==
  /\ filters' = PeriodFilters(filters, period, today)
  /\ Render(filters')
  /\ output' = NoOutput
  /\ event' = Event("period", period)
  /\ UNCHANGED <<customers, today, zoneWest>>

\* mutant: the edit spreads the initial bounds instead of the current ones
FromDateFiltersResetsTo(f, value) ==
  [ f EXCEPT !.dateFrom = value, !.dateTo = FormatISO(endOfMonth(today)), !.period = "custom" ]

\* mutant: the edit changes the bound and leaves the period label as it was
FromDateFiltersKeepsPeriod(f, value) == [ f EXCEPT !.dateFrom = value ]

FromDateFilters(f, value) == [ f EXCEPT !.dateFrom = value, !.period = "custom" ]

ToDateFilters(f, value) == [ f EXCEPT !.dateTo = value, !.period = "custom" ]

CustomerFilters(f, value) == [ f EXCEPT !.customer = value ]

ChangeFromDate(value) ==
  /\ filters' = FromDateFilters(filters, value)
  /\ Render(filters')
  /\ output' = NoOutput
  /\ event' = Event("from", value)
  /\ UNCHANGED <<customers, today, zoneWest>>

ChangeToDate(value) ==
  /\ filters' = ToDateFilters(filters, value)
  /\ Render(filters')
  /\ output' = NoOutput
  /\ event' = Event("to", value)
  /\ UNCHANGED <<customers, today, zoneWest>>

\* the options of the select: All Customers, then one per customer of the store
CustomerOptions == { "" } \cup { customers[i].id : i \in 1..Len(customers) }

ChangeCustomer(value) ==
  /\ value \in CustomerOptions
  /\ filters' = CustomerFilters(filters, value)
  /\ Render(filters')
  /\ output' = NoOutput
  /\ event' = Event("customer", value)
  /\ UNCHANGED <<customers, today, zoneWest>>

ClickExcel ==
  /\ output' = exportToCSV(filters, transactions, zoneWest)
  /\ event' = Event("excel", "")
  /\ UNCHANGED <<filters, orders, payments, customers, transactions, today, zoneWest>>

ClickPDF ==
  /\ output' = generatePDF(filters, customers, transactions, zoneWest)
  /\ event' = Event("pdf", "")
  /\ UNCHANGED <<filters, orders, payments, customers, transactions, today, zoneWest>>

\* the modal is rendered for one customer of the store
OpenCustomerDetails(i) ==
  /\ i \in 1..Len(customers)
  /\ LET r == CustomerOrders(orders, customers[i])
     IN  /\ output' = [ kind |-> "modal", customer |-> customers[i],
                        customerOrders |-> r.customerOrders ]
         /\ orders' = r.orders
  /\ event' = Event("modal", customers[i].id)
  /\ UNCHANGED <<filters, payments, customers, transactions, today, zoneWest>>

\* the store drops a customer; the page renders again with its filters as they are
DeleteCustomer(i) ==
  /\ i \in 1..Len(customers)
  /\ customers' = SubSeq(customers, 1, i - 1) \o SubSeq(customers, i + 1, Len(customers))
  /\ Render(filters)
  /\ output' = NoOutput
  /\ event' = Event("delete", customers[i].id)
  /\ UNCHANGED <<filters, today, zoneWest>>

Next ==
  \/ \E period \in QuickPeriods : handlePeriodChange(period)
  \/ \E value \in DateInputs : ChangeFromDate(value)
  \/ \E value \in DateInputs : ChangeToDate(value)
  \/ \E value \in CustomerOptions : ChangeCustomer(value)
  \/ ClickExcel
  \/ ClickPDF
  \/ \E i \in 1..Len(customers) : OpenCustomerDetails(i)
  \/ \E i \in 1..Len(customers) : DeleteCustomer(i)

Spec == Init /\ [][Next]_vars

\* the same page over the store whose records share dates
InitTied ==
  /\ \E env \in Environments : today = env.today /\ zoneWest = env.west
  /\ orders \in ListsOf(TiedOrderPool, MaxOrders)
  /\ payments \in ListsOf(TiedPaymentPool, MaxPayments)
  /\ customers = <<CustomerA, CustomerB>>
  /\ filters = InitialFilters(today)
  /\ transactions = ComputeTransactions(filters, orders, payments).transactions
  /\ output = NoOutput
  /\ event = [ name |-> "mount", value |-> "", was |-> "month" ]

SpecTied == InitTied /\ [][Next]_vars

----------------------------------------------------------------------------
(* Readers used to state the properties: what a consumer of the outputs sees *)

\* an RFC 4180 reader: fields may be quoted, a doubled quote inside a quoted
\* field is one quote, a comma outside quotes ends the field and a line break
\* outside quotes ends the record. ReadField reads one field from position i
\* and gives it with the position of the delimiter that ended it.
RECURSIVE ReadField(_, _, _, _)
ReadField(text, i, field, inQuotes) ==
  IF i > Len(text) THEN [ field |-> field, next |-> i ]
  ELSE IF inQuotes
       THEN IF text[i] = "\""
            THEN IF i < Len(text) /\ text[i + 1] = "\""
                 THEN ReadField(text, i + 2, Append(field, "\""), TRUE)
                 ELSE ReadField(text, i + 1, field, FALSE)
            ELSE ReadField(text, i + 1, Append(field, text[i]), TRUE)
       ELSE IF text[i] = "\"" THEN ReadField(text, i + 1, field, TRUE)
            ELSE IF text[i] \in { ",", "\n" } THEN [ field |-> field, next |-> i ]
            ELSE ReadField(text, i + 1, Append(field, text[i]), FALSE)

\* one record from position i, with the position after the line break that ended it
RECURSIVE ReadRow(_, _, _)
ReadRow(text, i, row) ==
  LET r == ReadField(text, i, <<>>, FALSE)
  IN  IF r.next <= Len(text) /\ text[r.next] = ","
      THEN ReadRow(text, r.next + 1, Append(row, r.field))
      ELSE [ row |-> Append(row, r.field), next |-> r.next + 1, ended |-> r.next > Len(text) ]

RECURSIVE ReadRows(_, _, _)
ReadRows(text, i, rows) ==
  LET r == ReadRow(text, i, <<>>)
  IN  IF r.ended THEN Append(rows, r.row) ELSE ReadRows(text, r.next, Append(rows, r.row))

ParseCsv(text) == ReadRows(text, 1, <<>>)

BlankRow == << <<>> >>

DigitValue(c) == CHOOSE d \in 0..9 : DigitChar(d) = c

RECURSIVE ParseNat(_)
ParseNat(s) ==
  IF s = <<>> THEN 0 ELSE 10 * ParseNat(SubSeq(s, 1, Len(s) - 1)) + DigitValue(s[Len(s)])

\* the amount, in hundredths, that a text of the form [-]digits.dd denotes
ParseFixed2(s) ==
  LET negative == s # <<>> /\ s[1] = "-"
      body     == IF negative THEN Tail(s) ELSE s
      whole    == SubSeq(body, 1, Len(body) - 3)
      cents    == SubSeq(body, Len(body) - 1, Len(body))
      value    == 100 * ParseNat(whole) + ParseNat(cents)
  IN  IF negative THEN 0 - value ELSE value

\* the amount shown after the currency glyph
ParseMoney(s) == ParseFixed2(Tail(s))

\* d1 is not later than d2, as calendar dates
NotLater(d1, d2) ==
  \/ d1[1] < d2[1]
  \/ d1[1] = d2[1] /\ d1[2] < d2[2]
  \/ d1[1] = d2[1] /\ d1[2] = d2[2] /\ d1[3] <= d2[3]

\* the date lies in the filter's window [dateFrom, dateTo]; an empty bound is
\* compared as the store compares it
InWindow(date, f) == StringLeq(f.dateFrom, date) /\ StringLeq(date, f.dateTo)

SelectedBy(customerId, f) == f.customer = "" \/ customerId = f.customer

\* the sum of totalAmount over the first k orders of the store that f selects
RECURSIVE BilledInStore(_, _, _)
BilledInStore(os, f, k) ==
  IF k = 0 THEN 0
  ELSE BilledInStore(os, f, k - 1)
         + (IF InWindow(os[k].orderDate, f) /\ SelectedBy(os[k].customerId, f)
            THEN os[k].totalAmount ELSE 0)

\* the sum of amount over the first k payments of the store that f selects
RECURSIVE PaidInStore(_, _, _)
PaidInStore(ps, f, k) ==
  IF k = 0 THEN 0
  ELSE PaidInStore(ps, f, k - 1)
         + (IF InWindow(ps[k].paymentDate, f) /\ SelectedBy(ps[k].customerId, f)
            THEN ps[k].amount ELSE 0)

----------------------------------------------------------------------------
(* Properties *)

\* C1: totalBilled is the sum of totalAmount over the store's orders dated in
\* [dateFrom, dateTo] of the selected customer (of all customers when none is
\* selected), and totalPaid the sum of amount over the payments likewise.
C1_TotalsMatchStore ==
  /\ TotalBilled(transactions) = BilledInStore(orders, filters, Len(orders))
  /\ TotalPaid(transactions) = PaidInStore(payments, filters, Len(payments))

\* a customer is selected, the window keeps one of that customer's orders and
\* drops something of the store, and both totals are positive
C1_Witness ==
  /\ filters.customer = "c1"
  /\ TotalBilled(transactions) > 0
  /\ TotalPaid(transactions) > 0
  /\ Len(orders) = 2
  /\ \E i \in 1..Len(orders) : orders[i].customerId = "c1" /\ ~InWindow(orders[i].orderDate, filters)
  /\ \E i \in 1..Len(orders) : orders[i].customerId = "c1" /\ InWindow(orders[i].orderDate, filters)

\* C2: the transaction list is non-decreasing by date, whatever the order in
\* which the store holds its orders and payments.
C2_SortedByDate ==
  \A i \in 1..(Len(transactions) - 1) :
    NotLater(transactions[i].date, transactions[i + 1].date)

\* the store holds a later order before an earlier one, both are in the list,
\* and a payment is in the list as well
C2_Witness ==
  /\ Len(transactions) >= 3
  /\ Len(orders) = 2
  /\ ~NotLater(orders[1].orderDate, orders[2].orderDate)
  /\ \E i \in 1..Len(transactions) : transactions[i].type = "payment"
  /\ Cardinality({ i \in 1..Len(transactions) : transactions[i].type = "order" }) = 2

\* C3: the pending amount on the page and in the PDF footer is totalBilled minus
\* totalPaid of the current transaction list, negative when payments exceed
\* billings.
C3_PendingIsDifference ==
  /\ ParseMoney(Screen(filters, transactions, zoneWest).pendingAmount)
       = TotalBilled(transactions) - TotalPaid(transactions)
  /\ output.kind = "pdf" =>
       ParseMoney(output.footer.pending) = TotalBilled(transactions) - TotalPaid(transactions)

\* a PDF was produced while payments exceed billings
C3_Witness ==
  /\ output.kind = "pdf"
  /\ TotalPaid(transactions) > TotalBilled(transactions)
  /\ TotalBilled(transactions) > 0

\* C4: the exported CSV reads back as n + 3 rows: the header, the n transaction
\* rows in transaction order, a blank row, and the total row whose billed and
\* paid fields are totalBilled and totalPaid with two decimals.
C4_CsvRoundTrip ==
  output.kind = "csv" =>
    LET rows == ParseCsv(output.content)
        n    == Len(transactions)
        last == rows[n + 3]
    IN  /\ Len(rows) = n + 3
        /\ rows[1] = HeadCells(filters.customer = "")
        /\ \A i \in 1..n :
             LET row == rows[i + 1]
                 k   == Len(row)
             IN  /\ k = Len(rows[1])
                 /\ row[k - 2] = transactions[i].description
                 /\ ParseFixed2(row[k - 1]) = transactions[i].billed
                 /\ ParseFixed2(row[k]) = transactions[i].paid
                 /\ filters.customer = "" => row[2] = transactions[i].customerName
        /\ rows[n + 2] = BlankRow
        /\ Len(last) = Len(rows[1])
        /\ last[Len(last) - 2] = TotalLabel
        /\ last[Len(last) - 1] = ToFixed2(TotalBilled(transactions))
        /\ last[Len(last)] = ToFixed2(TotalPaid(transactions))

\* a CSV of three transactions whose cells hold a quote, a comma and a line break
C4_Witness ==
  /\ output.kind = "csv"
  /\ filters.customer = ""
  /\ Len(transactions) = 3
  /\ \E i \in 1..3 : transactions[i].customerName = NameB
  /\ \E i \in 1..3 : \E j \in 1..Len(transactions[i].description) :
       transactions[i].description[j] = "\n"

\* the table of the page has a customer column: in its header and in every row
ScreenHasCustomerColumn ==
  LET table == Screen(filters, transactions, zoneWest).table
  IN  /\ table.kind = "table"
      /\ Len(table.head) = 5 /\ table.head[2] = HCustomer
      /\ \A i \in 1..Len(table.body) :
           Len(table.body[i]) = 5 /\ table.body[i][2] = transactions[i].customerName

\* the table of the PDF has a customer column: in its header and in every row
PdfHasCustomerColumn ==
  /\ Len(output.head[1]) = 5 /\ output.head[1][2] = HCustomer
  /\ \A i \in 1..Len(output.body) :
       Len(output.body[i]) = 5 /\ output.body[i][2] = transactions[i].customerName

ScreenLacksCustomerColumn ==
  LET table == Screen(filters, transactions, zoneWest).table
  IN  table.kind = "table" =>
        /\ Len(table.head) = 4 /\ \A j \in 1..4 : table.head[j] # HCustomer
        /\ \A i \in 1..Len(table.body) : Len(table.body[i]) = 4

PdfLacksCustomerColumn ==
  /\ Len(output.head[1]) = 4 /\ \A j \in 1..4 : output.head[1][j] # HCustomer
  /\ \A i \in 1..Len(output.body) : Len(output.body[i]) = 4

\* C5 as claimed: in every filter state the customer column is in the table of
\* the page, and in the table of a PDF, exactly when no customer is selected.
C5_ColumnIffNoCustomer ==
  /\ ScreenHasCustomerColumn <=> filters.customer = ""
  /\ output.kind = "pdf" => (PdfHasCustomerColumn <=> filters.customer = "")

\* C5 as amended: whenever the page renders its table (the transaction list is
\* not empty) the table has the customer column exactly when no customer is
\* selected, and so has the table of every PDF produced; with an empty list the
\* page renders no table at all, while the PDF still carries its header row.
C5_ColumnIffNoCustomerWhenRendered ==
  /\ Len(transactions) > 0 =>
       /\ ScreenHasCustomerColumn <=> filters.customer = ""
       /\ filters.customer # "" => ScreenLacksCustomerColumn
  /\ Len(transactions) = 0 => Screen(filters, transactions, zoneWest).table.kind = "empty"
  /\ output.kind = "pdf" =>
       /\ PdfHasCustomerColumn <=> filters.customer = ""
       /\ filters.customer # "" => PdfLacksCustomerColumn
       /\ Len(transactions) > 0 => (PdfHasCustomerColumn <=> ScreenHasCustomerColumn)

\* a PDF of a non-empty list for one selected customer
C5_Witness ==
  /\ output.kind = "pdf"
  /\ filters.customer # ""
  /\ Len(transactions) >= 2

\* the bounds a quick period stands for on the day now, stated on the date strings
IsToday(s, now) == IsValidDate(s) /\ DayNumber(s) = now

IsWeekStart(s, now) ==
  /\ IsValidDate(s)
  /\ GetDay(DayNumber(s)) = 0
  /\ DayNumber(s) <= now /\ now - DayNumber(s) <= 6

IsWeekEnd(s, now) ==
  /\ IsValidDate(s)
  /\ GetDay(DayNumber(s)) = 6
  /\ now <= DayNumber(s) /\ DayNumber(s) - now <= 6

SameMonth(s, now) == s[1] = DateOfDay(now)[1] /\ s[2] = DateOfDay(now)[2]

IsMonthStart(s, now) == IsValidDate(s) /\ SameMonth(s, now) /\ s[3] = 1

IsMonthEnd(s, now) ==
  IsValidDate(s) /\ SameMonth(s, now) /\ ~IsValidDate(<<s[1], s[2], s[3] + 1>>)

\* C6: from any filter state, handlePeriodChange with today, week or month sets
\* period to that name and both bounds to that period's bounds for the current
\* date, in the one state update.
C6_QuickPeriodSetsBothBounds ==
  [][ event'.name = "period" =>
        /\ filters'.period = event'.value
        /\ event'.value = "today" =>
             IsToday(filters'.dateFrom, today) /\ IsToday(filters'.dateTo, today)
        /\ event'.value = "week" =>
             IsWeekStart(filters'.dateFrom, today) /\ IsWeekEnd(filters'.dateTo, today)
        /\ event'.value = "month" =>
             IsMonthStart(filters'.dateFrom, today) /\ IsMonthEnd(filters'.dateTo, today)
    ]_vars

\* week was clicked while the period was custom
C6_Witness ==
  /\ event.name = "period"
  /\ event.value = "week"
  /\ event.was = "custom"
  /\ filters.period = "week"
  /\ filters.customer # ""

\* C7: editing the From date sets period to custom and dateFrom to the entered
\* value and leaves dateTo and the customer as they were; editing the To date
\* does the same with the two bounds exchanged.
C7_DateEditKeepsTheRest ==
  [][ /\ event'.name = "from" =>
           /\ filters'.period = "custom"
           /\ filters'.dateFrom = event'.value
           /\ filters'.dateTo = filters.dateTo
           /\ filters'.customer = filters.customer
      /\ event'.name = "to" =>
           /\ filters'.period = "custom"
           /\ filters'.dateTo = event'.value
           /\ filters'.dateFrom = filters.dateFrom
           /\ filters'.customer = filters.customer
    ]_vars

\* the To date was cleared after the From date had been typed, a customer being
\* selected
C7_Witness ==
  /\ event.name = "to"
  /\ event.was = "custom"
  /\ filters.period = "custom"
  /\ filters.dateFrom = DayAfter
  /\ filters.dateTo = <<>>
  /\ filters.customer = "c2"

C9_HistoryOfCustomer ==
  output.kind = "modal" =>
    LET shown == output.customerOrders
        mine  == { i \in 1..Len(orders) : orders[i].customerId = output.customer.id }
    IN  /\ Len(shown) = Cardinality(mine)
        /\ \A i \in mine : \E j \in 1..Len(shown) : shown[j] = orders[i]
        /\ \A j \in 1..Len(shown) : \E i \in mine : shown[j] = orders[i]
        /\ \A j, k \in 1..Len(shown) : j # k => shown[j] # shown[k]
        /\ \A j \in 1..(Len(shown) - 1) : NotLater(shown[j + 1].orderDate, shown[j].orderDate)

\* the history of a customer with two orders that the store holds oldest first
C9_Witness ==
  /\ output.kind = "modal"
  /\ Len(output.customerOrders) = 2
  /\ Len(orders) = 2
  /\ ~NotLater(orders[2].orderDate, orders[1].orderDate)

\* the selected id is not the id of any customer of the store
GhostCustomer ==
  filters.customer # "" /\ \A i \in 1..Len(customers) : customers[i].id # filters.customer

\* C10 as claimed: generatePDF with a selected id that matches no customer does
\* not fail and writes 'Customer: All Customers'; with an id that matches it
\* writes that customer's name; with no customer selected it writes no
\* customer line.
C10_MissingCustomerNeverFails ==
  event.name = "pdf" =>
    /\ GhostCustomer =>
         /\ output.kind = "pdf"
         /\ Len(output.header) = 4
         /\ output.header[4] = CustomerLabel \o AllCustomers
    /\ (output.kind = "pdf" /\ filters.customer # "" /\ ~GhostCustomer) =>
         /\ Len(output.header) = 4
         /\ \E i \in 1..Len(customers) :
              /\ customers[i].id = filters.customer
              /\ output.header[4] = CustomerLabel \o customers[i].name
    /\ (output.kind = "pdf" /\ filters.customer = "") => Len(output.header) = 3

\* C10 as amended: the same, provided both filter dates are dates; with a cleared
\* From or To date generatePDF throws at the period line, whoever is selected.
C10_MissingCustomerFallsBack ==
  event.name = "pdf" =>
    /\ output.kind = "pdf" <=> (IsValidDate(filters.dateFrom) /\ IsValidDate(filters.dateTo))
    /\ output.kind # "pdf" => output.kind = "error" /\ output.error = "RangeError"
    /\ (output.kind = "pdf" /\ GhostCustomer) =>
         /\ Len(output.header) = 4
         /\ output.header[4] = CustomerLabel \o AllCustomers
    /\ (output.kind = "pdf" /\ filters.customer # "" /\ ~GhostCustomer) =>
         /\ Len(output.header) = 4
         /\ \E i \in 1..Len(customers) :
              /\ customers[i].id = filters.customer
              /\ output.header[4] = CustomerLabel \o customers[i].name
    /\ (output.kind = "pdf" /\ filters.customer = "") => Len(output.header) = 3

\* a PDF was produced for a selected customer the store no longer holds
C10_Witness ==
  /\ event.name = "pdf"
  /\ output.kind = "pdf"
  /\ GhostCustomer
  /\ Len(transactions) > 0

\* the filtered orders and payments of one date, in the order the store returns them
OrdersOfDate(d) ==
  LET OfDate(o) == o.orderDate = d
  IN  SelectSeq(getFilteredOrders(orders, FilterParams(filters)), OfDate)

PaymentsOfDate(d) ==
  LET OfDate(p) == p.paymentDate = d
  IN  SelectSeq(getFilteredPayments(payments, FilterParams(filters)), OfDate)

TransactionsOfDate(d) ==
  LET OfDate(tx) == tx.date = d
  IN  SelectSeq(transactions, OfDate)

\* C11: among the transactions of one date the sort is stable with respect to
\* the concatenation: the orders of that date come first, in the order the store
\* returned them, and the payments of that date follow, in the order the store
\* returned them.
C11_TiesKeepConcatenationOrder ==
  \A d \in { transactions[i].date : i \in 1..Len(transactions) } :
    LET os  == OrdersOfDate(d)
        ps  == PaymentsOfDate(d)
        txs == TransactionsOfDate(d)
    IN  /\ Len(txs) = Len(os) + Len(ps)
        /\ \A k \in 1..Len(os) :
              /\ txs[k].type = "order"
              /\ txs[k].billed = os[k].totalAmount
              /\ txs[k].customerName = os[k].customerName
        /\ \A k \in 1..Len(ps) :
              /\ txs[Len(os) + k].type = "payment"
              /\ txs[Len(os) + k].paid = ps[k].amount
              /\ txs[Len(os) + k].customerName = ps[k].customerName

\* two orders and two payments of one date are listed, and the store holds the
\* second customer's records before the first customer's
C11_Witness ==
  /\ Len(transactions) = 4
  /\ \A i \in 1..Len(transactions) : transactions[i].date = transactions[1].date
  /\ Len(orders) = 2 /\ orders[1].customerId = "c2"
  /\ Len(payments) = 2 /\ payments[1].customerId = "c2"
  /\ transactions[1].customerName = NameB
  /\ transactions[3].customerName = NameB

\* the bounds a quick period stands for, on the clock's day
BoundsOfPeriod(f, now) ==
  CASE f.period = "today" -> IsToday(f.dateFrom, now) /\ IsToday(f.dateTo, now)
    [] f.period = "week"  -> IsWeekStart(f.dateFrom, now) /\ IsWeekEnd(f.dateTo, now)
    [] f.period = "month" -> IsMonthStart(f.dateFrom, now) /\ IsMonthEnd(f.dateTo, now)
    [] OTHER              -> TRUE

\* C12: with the clock held fixed, under every sequence of quick-period clicks,
\* From and To edits and customer selections: whenever period is 'today', 'week'
\* or 'month', dateFrom and dateTo are that period's bounds for the current
\* date, from the initial state (period 'month') on; and a customer selection
\* changes none of period, dateFrom and dateTo.
C12_PeriodLabelTellsTheBounds ==
  /\ filters.period = "month" /\ BoundsOfPeriod(filters, today)
  /\ [][ /\ BoundsOfPeriod(filters', today')
         /\ event'.name = "customer" =>
               /\ filters'.period = filters.period
               /\ filters'.dateFrom = filters.dateFrom
               /\ filters'.dateTo = filters.dateTo
               /\ filters'.customer = event'.value ]_vars

\* a customer was selected while the week preset was in force: the selection
\* is in the filters, and the label and the week's bounds are still there
C12_Witness ==
  /\ event.name = "customer"
  /\ event.value = "c2"
  /\ filters.customer = "c2"
  /\ filters.period = "week"
  /\ IsWeekStart(filters.dateFrom, today)
  /\ IsWeekEnd(filters.dateTo, today)

====
